---- MODULE Spec2Model ----
(***************************************************************************)
(* Model of src/main.py: the UNITS table, convert_temperature,             *)
(* convert_unit and main.                                                  *)
(*                                                                         *)
(* A Python float is an IEEE-754 binary64.  It is modelled exactly: a      *)
(* value is a sign, a 53-bit significand and a binary exponent, and every  *)
(* arithmetic operation computes the exact result and rounds it to         *)
(* nearest, ties to even.  The significand does not fit TLC's 32-bit       *)
(* integers, so it is held as a little-endian sequence of 15-bit limbs.    *)
(* All values of the model stay far inside the normal range of binary64,   *)
(* so overflow to infinity and gradual underflow are not part of it.       *)
(* A Python int of the program (1, 1000, 32, 5, 9) is modelled by the      *)
(* float it equals; every integer the model meets is below 2^53, where     *)
(* int and float arithmetic agree.                                         *)
(***************************************************************************)
EXTENDS Integers, Sequences, FiniteSets, TLC

(***************************************************************************)
(* Natural numbers of arbitrary size: <<>> is 0, otherwise a sequence of   *)
(* limbs, least significant first, whose last limb is not 0.               *)
(***************************************************************************)
LimbBits == 5 * 3

Base == 2 ^ LimbBits

RECURSIVE BNorm(_)
BNorm(a) ==
  IF a = <<>> THEN <<>>
  ELSE IF a[Len(a)] = 0 THEN BNorm(SubSeq(a, 1, Len(a) - 1))
  ELSE a

RECURSIVE BFromNat(_)
BFromNat(n) ==
  IF n = 0 THEN <<>> ELSE <<n % Base>> \o BFromNat(n \div Base)

RECURSIVE NatBitLen(_)
NatBitLen(n) == IF n = 0 THEN 0 ELSE 1 + NatBitLen(n \div 2)

BitLen(a) ==
  IF a = <<>> THEN 0 ELSE LimbBits * (Len(a) - 1) + NatBitLen(a[Len(a)])

\* -1, 0, 1 as a < b, a = b, a > b; i is the limb compared next, from the top.
RECURSIVE BCmpFrom(_, _, _)
BCmpFrom(a, b, i) ==
  IF i = 0 THEN 0
  ELSE IF a[i] < b[i] THEN -1
  ELSE IF a[i] > b[i] THEN 1
  ELSE BCmpFrom(a, b, i - 1)

BCmp(a, b) ==
  IF Len(a) < Len(b) THEN -1
  ELSE IF Len(a) > Len(b) THEN 1
  ELSE BCmpFrom(a, b, Len(a))

Limb(a, i) == IF i <= Len(a) THEN a[i] ELSE 0

RECURSIVE BAddFrom(_, _, _, _)
BAddFrom(a, b, i, carry) ==
  IF i > Len(a) /\ i > Len(b)
  THEN IF carry = 0 THEN <<>> ELSE <<carry>>
  ELSE LET s == Limb(a, i) + Limb(b, i) + carry
       IN  <<s % Base>> \o BAddFrom(a, b, i + 1, s \div Base)

BAdd(a, b) == BAddFrom(a, b, 1, 0)

\* a - b for a >= b.
RECURSIVE BSubFrom(_, _, _, _)
BSubFrom(a, b, i, borrow) ==
  IF i > Len(a) THEN <<>>
  ELSE LET d == a[i] - Limb(b, i) - borrow
       IN  IF d < 0
           THEN <<d + Base>> \o BSubFrom(a, b, i + 1, 1)
           ELSE <<d>> \o BSubFrom(a, b, i + 1, 0)

BSub(a, b) == BNorm(BSubFrom(a, b, 1, 0))

\* a * d for one limb d.
RECURSIVE BMulLimbFrom(_, _, _, _)
BMulLimbFrom(a, d, i, carry) ==
  IF i > Len(a)
  THEN IF carry = 0 THEN <<>> ELSE <<carry>>
  ELSE LET p == a[i] * d + carry
       IN  <<p % Base>> \o BMulLimbFrom(a, d, i + 1, p \div Base)

BMulLimb(a, d) == IF d = 0 THEN <<>> ELSE BMulLimbFrom(a, d, 1, 0)

Zeros(n) == [i \in 1..n |-> 0]

ShiftLimbs(a, n) == IF a = <<>> THEN <<>> ELSE Zeros(n) \o a

RECURSIVE BMulFrom(_, _, _)
BMulFrom(a, b, i) ==
  IF i > Len(b) THEN <<>>
  ELSE BAdd(ShiftLimbs(BMulLimb(a, b[i]), i - 1), BMulFrom(a, b, i + 1))

BMul(a, b) == BMulFrom(a, b, 1)

\* a * 2^n.
BShl(a, n) == ShiftLimbs(BMulLimb(a, 2 ^ (n % LimbBits)), n \div LimbBits)

\* floor(a / 2^n).
BShr(a, n) ==
  LET k == n \div LimbBits
      r == n % LimbBits
      t == IF k >= Len(a) THEN <<>> ELSE SubSeq(a, k + 1, Len(a))
  IN  BNorm([i \in 1..Len(t) |->
               (t[i] \div (2 ^ r)) + (Limb(t, i + 1) % (2 ^ r)) * (2 ^ (LimbBits - r))])

\* a mod 2^n.
BLow(a, n) ==
  LET k == n \div LimbBits
      r == n % LimbBits
  IN  BNorm([i \in 1..(IF k < Len(a) THEN k + 1 ELSE Len(a)) |->
               IF i = k + 1 THEN a[i] % (2 ^ r) ELSE a[i]])

BIsOdd(a) == a # <<>> /\ a[1] % 2 = 1

(***************************************************************************)
(* floor(n / d) and n mod d for d > 0, by long division in base Base.      *)
(* Both are first scaled by a power of 2 that brings the top limb of d to  *)
(* Base / 2 or more; the quotient limb estimated from the two top limbs of *)
(* the running remainder is then the true one or exceeds it by at most 2   *)
(* (Knuth, TAOCP 4.3.1, Theorem B), and is corrected by comparison.        *)
(***************************************************************************)
\* The estimate of the next quotient limb, from the remainder r1 < d * Base.
QHat(r1, d) ==
  LET est == (Limb(r1, Len(d) + 1) * Base + Limb(r1, Len(d))) \div d[Len(d)]
  IN  IF est > Base - 1 THEN Base - 1 ELSE est

\* The limb is qhat - 2: p2 = d * (qhat - 2).
DivFix2(r1, qhat, p2) == [qd |-> qhat - 2, r |-> BSub(r1, p2)]

\* The limb is qhat - 1 or qhat - 2: p1 = d * (qhat - 1).
DivFix1(r1, d, qhat, p1) ==
  IF BCmp(p1, r1) <= 0 THEN [qd |-> qhat - 1, r |-> BSub(r1, p1)]
  ELSE DivFix2(r1, qhat, BSub(p1, d))

\* The limb is qhat, qhat - 1 or qhat - 2: p0 = d * qhat.
DivFix0(r1, d, qhat, p0) ==
  IF BCmp(p0, r1) <= 0 THEN [qd |-> qhat, r |-> BSub(r1, p0)]
  ELSE DivFix1(r1, d, qhat, BSub(p0, d))

DivEstimate(r1, d, qhat) == DivFix0(r1, d, qhat, BMulLimb(d, qhat))

\* One limb of the quotient: r < d is the remainder so far, limb the next
\* limb of the dividend brought down.
DivStep(r, limb, d) == DivEstimate(BNorm(<<limb>> \o r), d, QHat(BNorm(<<limb>> \o r), d))

DivJoin(rest, qd) == [q |-> rest.q \o <<qd>>, r |-> rest.r]

RECURSIVE DivLimbs(_, _, _, _)
DivNext(n, i, d, s) == CASE s.qd >= 0 -> DivJoin(DivLimbs(n, i - 1, s.r, d), s.qd)

DivLimbs(n, i, r, d) ==
  IF i = 0 THEN [q |-> <<>>, r |-> r] ELSE DivNext(n, i, d, DivStep(r, n[i], d))

NormShift(d) == LimbBits - NatBitLen(d[Len(d)])

DivUnscale(s, sh) == [q |-> BNorm(s.q), r |-> BShr(s.r, sh)]

DivScaled(n, d, sh) == DivUnscale(DivLimbs(n, Len(n), <<>>, d), sh)

BDivMod(n, d) == DivScaled(BShl(n, NormShift(d)), BShl(d, NormShift(d)), NormShift(d))

(***************************************************************************)
(* A float: sgn 0 for +, 1 for -; man in [2^52, 2^53) and exp, the value   *)
(* being man * 2^exp; zero is man = <<>>, exp = 0.  The form is canonical: *)
(* two floats other than zero are equal numbers iff equal records.         *)
(***************************************************************************)
Precision == 52 + 1

FZero(s) == [sgn |-> s, man |-> <<>>, exp |-> 0]

IsZero(a) == a.man = <<>>

\* The significand q has Precision bits, or one more after a carry.
Renorm(s, q, e) ==
  IF BitLen(q) > Precision
  THEN [sgn |-> s, man |-> BShr(q, 1), exp |-> e + 1]
  ELSE [sgn |-> s, man |-> q, exp |-> e]

\* q is the exact significand cut to Precision bits; c compares what was cut
\* off with half a unit of the last place.
RoundCut(s, q, e, c, sticky) ==
  IF c > 0 \/ (c = 0 /\ (sticky \/ BIsOdd(q)))
  THEN Renorm(s, BAdd(q, <<1>>), e)
  ELSE Renorm(s, q, e)

RoundLen(s, n, e, sticky, len) ==
  IF len <= Precision
  THEN [sgn |-> s, man |-> BShl(n, Precision - len), exp |-> e - (Precision - len)]
  ELSE RoundCut(s, BShr(n, len - Precision), e + (len - Precision),
                BCmp(BLow(n, len - Precision), BShl(<<1>>, len - Precision - 1)),
                sticky)

\* The float nearest to (-1)^s * (n + f) * 2^e, ties to even, where n is a
\* natural number and 0 <= f < 1, f > 0 iff sticky.
Round(s, n, e, sticky) ==
  IF n = <<>> THEN FZero(s) ELSE RoundLen(s, n, e, sticky, BitLen(n))

\* float(n) for a Python int n, |n| < 2^31.
FromInt(n) ==
  Round(IF n < 0 THEN 1 ELSE 0, BFromNat(IF n < 0 THEN -n ELSE n), 0, FALSE)

FNeg(a) == [a EXCEPT !.sgn = 1 - a.sgn]

FAbs(a) == [a EXCEPT !.sgn = 0]

\* a * b
FMul(a, b) ==
  IF IsZero(a) \/ IsZero(b) THEN FZero((a.sgn + b.sgn) % 2)
  ELSE Round((a.sgn + b.sgn) % 2, BMul(a.man, b.man), a.exp + b.exp, FALSE)

DivRound(s, qr, e) == Round(s, qr.q, e, qr.r # <<>>)

\* a / b: the quotient of the significands to Precision + 3 bits or more, the
\* remainder kept as the sticky bit.  Python raises ZeroDivisionError for
\* b = 0; no divisor of the program is 0 (the factors of UNITS, 9 and 5), and
\* the operator is left undefined there.
FDiv(a, b) ==
  CASE ~IsZero(b) ->
    IF IsZero(a) THEN FZero((a.sgn + b.sgn) % 2)
    ELSE DivRound((a.sgn + b.sgn) % 2,
                  BDivMod(BShl(a.man, Precision + 3), b.man),
                  a.exp - b.exp - (Precision + 3))

\* x * 2^e and y * 2^e are the magnitudes, sa and sb the signs, c compares
\* x with y.
AddAligned(sa, sb, x, y, e, c) ==
  Round(IF sa = sb THEN sa ELSE IF c = 0 THEN 0 ELSE IF c > 0 THEN sa ELSE sb,
        IF sa = sb THEN BAdd(x, y) ELSE IF c >= 0 THEN BSub(x, y) ELSE BSub(y, x),
        e, FALSE)

AddShifted(sa, sb, x, y, e) == AddAligned(sa, sb, x, y, e, BCmp(x, y))

MinExp(a, b) == IF a.exp < b.exp THEN a.exp ELSE b.exp

\* a + b
FAdd(a, b) ==
  IF IsZero(a) THEN (IF IsZero(b) THEN FZero(IF a.sgn = 1 /\ b.sgn = 1 THEN 1 ELSE 0) ELSE b)
  ELSE IF IsZero(b) THEN a
  ELSE AddShifted(a.sgn, b.sgn, BShl(a.man, a.exp - MinExp(a, b)),
                  BShl(b.man, b.exp - MinExp(a, b)), MinExp(a, b))

\* a - b
FSub(a, b) == FAdd(a, FNeg(b))

\* a == b of Python: 0.0 == -0.0.
FEq(a, b) == (IsZero(a) /\ IsZero(b)) \/ a = b

\* a < b for a, b >= 0.
MagLt(a, b) ==
  IF IsZero(b) THEN FALSE
  ELSE IF IsZero(a) THEN TRUE
  ELSE a.exp < b.exp \/ (a.exp = b.exp /\ BCmp(a.man, b.man) < 0)

\* a < b
FLt(a, b) ==
  IF IsZero(a) /\ IsZero(b) THEN FALSE
  ELSE IF a.sgn = 1 /\ b.sgn = 0 THEN TRUE
  ELSE IF a.sgn = 0 /\ b.sgn = 1 THEN FALSE
  ELSE IF a.sgn = 0 THEN MagLt(a, b)
  ELSE MagLt(FAbs(b), FAbs(a))

FLe(a, b) == ~FLt(b, a)

\* The float a decimal literal k / 10^s of the source denotes (0.0254 is
\* Dec(254, 4)): Python reads a literal as the float nearest to it, which is
\* the correctly rounded quotient of the two integers.
Dec(k, s) == FDiv(FromInt(k), FromInt(10 ^ s))

(***************************************************************************)
(* The program.                                                            *)
(***************************************************************************)
VARIABLES
  units,    \* the module-level dict UNITS
  pc,       \* "idle", "called" (an engine call has ended), or main's position
  call,     \* the engine call made last: the function and its arguments
  outcome,  \* how that call ended: a returned value or a raised exception
  first,    \* the call whose result the call made last converted back
  frame,    \* main's local variables
  screen    \* the elements main has rendered, in order

vars == <<units, pc, call, outcome, first, frame, screen>>

\* The Weight table written with the gram as its base unit.
WeightUnitsInGrams ==
  [Kilogram   |-> FromInt(1000),
   Gram       |-> FromInt(1),
   Milligram  |-> Dec(1, 3),
   Pound      |-> Dec(453592, 3),
   Ounce      |-> Dec(283495, 4)]

LengthUnits ==
  [Meter      |-> FromInt(1),
   Kilometer  |-> FromInt(1000),
   Centimeter |-> Dec(1, 2),
   Millimeter |-> Dec(1, 3),
   Mile       |-> Dec(160934, 2),
   Yard       |-> Dec(9144, 4),
   Foot       |-> Dec(3048, 4),
   Inch       |-> Dec(254, 4)]

WeightUnits ==
  [Kilogram   |-> FromInt(1),
   Gram       |-> Dec(1, 3),
   Milligram  |-> Dec(1, 6),
   Pound      |-> Dec(453592, 6),
   Ounce      |-> Dec(283495, 7)]

TemperatureUnits == [Celsius |-> "C", Fahrenheit |-> "F", Kelvin |-> "K"]

UNITS == [Length |-> LengthUnits, Weight |-> WeightUnits, Temperature |-> TemperatureUnits]

\* How a call ends.
Return(v) == [kind |-> "return", val |-> v]

Raise(exc, key) == [kind |-> "raise", exc |-> exc, key |-> key]

\* to_celsius with the Kelvin offset cut to a whole number.
to_celsius_whole_kelvin(value, from_unit) ==
  IF from_unit = "Fahrenheit"
  THEN FDiv(FMul(FSub(value, FromInt(32)), FromInt(5)), FromInt(9))
  ELSE IF from_unit = "Kelvin" THEN FSub(value, FromInt(273))
  ELSE value

\* to_celsius with its branches reordered so that the last one takes Kelvin.
to_celsius_kelvin_last(value, from_unit) ==
  IF from_unit = "Fahrenheit"
  THEN FDiv(FMul(FSub(value, FromInt(32)), FromInt(5)), FromInt(9))
  ELSE IF from_unit = "Celsius" THEN value
  ELSE FSub(value, Dec(27315, 2))

\* Lines 45-52: the value in Celsius.
to_celsius(value, from_unit) ==
  IF from_unit = "Fahrenheit"
  THEN FDiv(FMul(FSub(value, FromInt(32)), FromInt(5)), FromInt(9))
  ELSE IF from_unit = "Kelvin" THEN FSub(value, Dec(27315, 2))
  ELSE value

\* from_celsius with the Fahrenheit ratio upside down.
from_celsius_ratio_inverted(celsius, to_unit) ==
  IF to_unit = "Fahrenheit"
  THEN FAdd(FDiv(FMul(celsius, FromInt(5)), FromInt(9)), FromInt(32))
  ELSE IF to_unit = "Kelvin" THEN FAdd(celsius, Dec(27315, 2))
  ELSE celsius

\* Lines 54-59: the Celsius value in the target unit.
from_celsius(celsius, to_unit) ==
  IF to_unit = "Fahrenheit"
  THEN FAdd(FDiv(FMul(celsius, FromInt(9)), FromInt(5)), FromInt(32))
  ELSE IF to_unit = "Kelvin" THEN FAdd(celsius, Dec(27315, 2))
  ELSE celsius

convert_temperature(value, from_unit, to_unit) ==
  IF from_unit = to_unit THEN value
  ELSE from_celsius(to_celsius(value, from_unit), to_unit)

\* convert_linear reading the factors with table.get(unit, 1).
convert_linear_get(value, table, unit_from, unit_to) ==
  Return(FDiv(FMul(value, IF unit_from \in DOMAIN table THEN table[unit_from] ELSE FromInt(1)),
              IF unit_to \in DOMAIN table THEN table[unit_to] ELSE FromInt(1)))

\* convert_linear with the two factors the wrong way round.
convert_linear_inverted(value, table, unit_from, unit_to) ==
  IF unit_from \notin DOMAIN table THEN Raise("KeyError", unit_from)
  ELSE IF unit_to \notin DOMAIN table THEN Raise("KeyError", unit_to)
  ELSE Return(FDiv(FMul(value, table[unit_to]), table[unit_from]))

\* Lines 80-81 once UNITS[unit_type] is found: table is that dict.
convert_linear(value, table, unit_from, unit_to) ==
  IF unit_from \notin DOMAIN table THEN Raise("KeyError", unit_from)
  ELSE IF unit_to \notin DOMAIN table THEN Raise("KeyError", unit_to)
  ELSE Return(FDiv(FMul(value, table[unit_from]), table[unit_to]))

convert_unit(value, unit_from, unit_to, unit_type) ==
  IF unit_type = "Temperature"
  THEN Return(convert_temperature(value, unit_from, unit_to))
  ELSE IF unit_type \notin DOMAIN units THEN Raise("KeyError", unit_type)
  ELSE convert_linear(value, units[unit_type], unit_from, unit_to)

(***************************************************************************)
(* The inputs.  The values are those of the specification's examples, the  *)
(* integers of -MaxInt..MaxInt and the tenths of -MaxTenths..MaxTenths;    *)
(* the names are every key of UNITS and one name that is no key.           *)
(***************************************************************************)
MaxInt == 3

MaxTenths == 1

InputValues ==
  {FromInt(k) : k \in {0, 1, 5, 32, 100, 1000}}
    \cup {FromInt(k) : k \in -MaxInt..MaxInt}
    \cup {Dec(k, 1) : k \in -MaxTenths..MaxTenths}

Categories == DOMAIN UNITS

UnitNames == UNION {DOMAIN UNITS[c] : c \in Categories}

InputCategories == Categories \cup {"Bogus"}

InputNames == UnitNames \cup {"Foo"}

NoCall == [fn |-> "none"]

NoOutcome == [kind |-> "none"]

NoFrame == [unit_type |-> "none"]

Init ==
  /\ units = UNITS
  /\ pc = "idle"
  /\ call = NoCall
  /\ outcome = NoOutcome
  /\ first = NoCall
  /\ frame = NoFrame
  /\ screen = <<>>

\* UNITS after UNITS.setdefault(unit_type, {}).
Setdefault(table, unit_type) ==
  [c \in DOMAIN table \cup {unit_type} |-> IF c \in DOMAIN table THEN table[c] ELSE <<>>]

\* convert_unit reading the table with UNITS.setdefault(unit_type, {}).
CallConvertUnitSetdefault(value, unit_from, unit_to, unit_type) ==
  /\ pc = "idle"
  /\ pc' = "called"
  /\ call' = [fn |-> "convert_unit", value |-> value, unit_from |-> unit_from,
              unit_to |-> unit_to, unit_type |-> unit_type]
  /\ units' = Setdefault(units, unit_type)
  /\ outcome' = IF unit_type = "Temperature"
                THEN Return(convert_temperature(value, unit_from, unit_to))
                ELSE convert_linear(value, Setdefault(units, unit_type)[unit_type],
                                    unit_from, unit_to)
  /\ UNCHANGED <<first, frame, screen>>

\* A caller calls convert_unit(value, unit_from, unit_to, unit_type).
CallConvertUnit(value, unit_from, unit_to, unit_type) ==
  /\ pc = "idle"
  /\ pc' = "called"
  /\ call' = [fn |-> "convert_unit", value |-> value, unit_from |-> unit_from,
              unit_to |-> unit_to, unit_type |-> unit_type]
  /\ outcome' = convert_unit(value, unit_from, unit_to, unit_type)
  /\ UNCHANGED <<units, first, frame, screen>>

\* A caller calls convert_temperature(value, from_unit, to_unit).
CallConvertTemperature(value, from_unit, to_unit) ==
  /\ pc = "idle"
  /\ pc' = "called"
  /\ call' = [fn |-> "convert_temperature", value |-> value, unit_from |-> from_unit,
              unit_to |-> to_unit, unit_type |-> "Temperature"]
  /\ outcome' = Return(convert_temperature(value, from_unit, to_unit))
  /\ UNCHANGED <<units, first, frame, screen>>

\* The caller converts the value convert_unit returned back to the unit it
\* came from: convert_unit(convert_unit(value, a, b, t), b, a, t).
CallConvertBack ==
  /\ pc = "called"
  /\ call.fn = "convert_unit"
  /\ first = NoCall
  /\ outcome.kind = "return"
  /\ first' = call
  /\ call' = [fn |-> "convert_unit", value |-> outcome.val, unit_from |-> call.unit_to,
              unit_to |-> call.unit_from, unit_type |-> call.unit_type]
  /\ outcome' = convert_unit(outcome.val, call.unit_to, call.unit_from, call.unit_type)
  /\ UNCHANGED <<units, pc, frame, screen>>

(***************************************************************************)
(* main, one run of the script.  st.selectbox and st.number_input are the  *)
(* widget layer, which is not part of the source: a selectbox hands back   *)
(* one of the options it was given, number_input a float.                  *)
(***************************************************************************)
\* Lines 88-133: the page, the three selectboxes and the number input.
MainWidgets(unit_type, input_value, from_unit, to_unit) ==
  /\ pc = "idle"
  /\ pc' = "main_try"
  /\ frame' = [unit_type |-> unit_type, input_value |-> input_value,
               from_unit |-> from_unit, to_unit |-> to_unit]
  /\ screen' = <<"title", "write", "selectbox", "subheader", "number_input",
                 "selectbox", "subheader", "selectbox">>
  /\ UNCHANGED <<units, call, outcome, first>>

MainStart ==
  /\ pc = "idle"
  /\ \E unit_type \in DOMAIN units, input_value \in InputValues :
       \E from_unit \in DOMAIN units[unit_type], to_unit \in DOMAIN units[unit_type] :
         MainWidgets(unit_type, input_value, from_unit, to_unit)

\* The widget layer taken at its loosest.  The unit selectboxes keep their
\* keys "from_unit" and "to_unit" from run to run while their options follow
\* unit_type; here a unit selectbox may hand back any unit name of UNITS, an
\* option of this run or not.  These are the runs in which lines 149-150 act.
MainStartStale ==
  /\ pc = "idle"
  /\ \E unit_type \in DOMAIN units, input_value \in InputValues :
       \E from_unit \in UnitNames, to_unit \in UnitNames :
         /\ {from_unit, to_unit} \cap DOMAIN units[unit_type] # {from_unit, to_unit}
         /\ MainWidgets(unit_type, input_value, from_unit, to_unit)

\* except ValueError in place of except Exception.
CaughtValueError(exc) == exc \in {"ValueError"}

\* except Exception: every exception convert_unit can raise is one.
Caught(exc) == exc \in {"KeyError", "ZeroDivisionError", "TypeError"}

\* Lines 136-150: the try statement.
MainShow(result) ==
  IF result.kind = "return"
  THEN /\ screen' = screen \o <<"markdown", "subheader", "info", "success">>
       /\ pc' = "main_about"
  ELSE IF Caught(result.exc)
  THEN /\ screen' = screen \o <<"error">>
       /\ pc' = "main_about"
  ELSE /\ screen' = screen
       /\ pc' = "main_crashed"

MainTry ==
  /\ pc = "main_try"
  /\ MainShow(convert_unit(frame.input_value, frame.from_unit, frame.to_unit,
                           frame.unit_type))
  /\ UNCHANGED <<units, call, outcome, first, frame>>

\* Lines 153-161: the About expander; main returns.
MainAbout ==
  /\ pc = "main_about"
  /\ pc' = "main_done"
  /\ screen' = screen \o <<"expander", "write">>
  /\ UNCHANGED <<units, call, outcome, first, frame>>

\* The caller goes on to its next call; the script is run again.
Again ==
  /\ pc \in {"called", "main_done"}
  /\ pc' = "idle"
  /\ call' = NoCall
  /\ outcome' = NoOutcome
  /\ first' = NoCall
  /\ frame' = NoFrame
  /\ screen' = <<>>
  /\ UNCHANGED units

\* The inputs of a call are enumerated only where a call can start.
Next ==
  \/ /\ pc = "idle"
     /\ \E value \in InputValues, unit_from \in InputNames, unit_to \in InputNames,
           unit_type \in InputCategories :
          CallConvertUnit(value, unit_from, unit_to, unit_type)
  \/ /\ pc = "idle"
     /\ \E value \in InputValues, from_unit \in InputNames, to_unit \in InputNames :
          CallConvertTemperature(value, from_unit, to_unit)
  \/ CallConvertBack
  \/ MainStart
  \/ MainTry
  \/ MainAbout
  \/ Again

Spec == Init /\ [][Next]_vars

\* main with the widget layer taken at its loosest.
NextStale == Next \/ MainStartStale

SpecStale == Init /\ [][NextStale]_vars

(***************************************************************************)
(* The properties.  A call is judged in the state in which it has ended:   *)
(* call holds the function and its arguments, outcome how it ended.        *)
(***************************************************************************)
Ended(fn) == pc = "called" /\ call.fn = fn

\* c is a category of the table and u one of its units.
UnitOf(c, u) == c \in Categories /\ u \in DOMAIN UNITS[c]

Linear == {"Length", "Weight"}

\* A binary64 value in its normal form.
IsFloat(v) ==
  /\ DOMAIN v = {"sgn", "man", "exp"}
  /\ v.sgn \in {0, 1}
  /\ v.man = <<>> \/ BitLen(v.man) = Precision

\* The call made last is fn(value, unit_from, unit_to[, unit_type]).
IsCall(fn, value, unit_from, unit_to, unit_type) ==
  /\ Ended(fn)
  /\ FEq(call.value, value)
  /\ call.unit_from = unit_from
  /\ call.unit_to = unit_to
  /\ call.unit_type = unit_type

\* C1: identity.  For every category of the table and every unit u of it,
\* convert_unit(value, u, u, category) returns exactly value.
IdentityExact ==
  (/\ Ended("convert_unit")
   /\ UnitOf(call.unit_type, call.unit_from)
   /\ call.unit_to = call.unit_from)
    => outcome.kind = "return" /\ FEq(outcome.val, call.value)

\* math.isclose(a, b, rel_tol = abs_tol = 1e-9).
Tolerance == Dec(1, 9)

FMax(a, b) == IF FLt(a, b) THEN b ELSE a

IsClose(a, b) ==
  FLe(FAbs(FSub(a, b)), FMax(FMul(Tolerance, FMax(FAbs(a), FAbs(b))), Tolerance))

\* The call made last converted the result of the call first back, both with
\* units of the category's table.
RoundTrip ==
  /\ pc = "called"
  /\ first # NoCall
  /\ UnitOf(first.unit_type, first.unit_from)
  /\ UnitOf(first.unit_type, first.unit_to)

\* C2: round trip.  For every category, every pair of units (a, b) of its
\* table and every value, convert_unit(convert_unit(value, a, b, category),
\* b, a, category) returns a number within the tolerance of value.
RoundTripClose ==
  RoundTrip => outcome.kind = "return" /\ IsClose(outcome.val, first.value)

RoundTripWitness ==
  /\ RoundTrip
  /\ first.unit_from # first.unit_to
  /\ outcome.kind = "return"
  /\ ~FEq(outcome.val, first.value)
  /\ IsClose(outcome.val, first.value)

\* The linear path is taken with a name that is no key.
UnknownInLinearPath ==
  /\ Ended("convert_unit")
  /\ \/ call.unit_type \notin Categories
     \/ /\ call.unit_type \in Linear
        /\ \/ call.unit_from \notin DOMAIN UNITS[call.unit_type]
           \/ call.unit_to \notin DOMAIN UNITS[call.unit_type]

\* C3: when unit_type is no key of UNITS, or is Length or Weight and unit_from
\* or unit_to is no key of that table, convert_unit ends in a KeyError that
\* reaches the caller, and returns no value.
UnknownLinearRaises ==
  UnknownInLinearPath => outcome.kind = "raise" /\ outcome.exc = "KeyError"

UnknownLinearWitness ==
  /\ IsCall("convert_unit", FromInt(5), "Foo", "Meter", "Length")
  /\ outcome = Raise("KeyError", "Foo")

\* C4: for each of the three categories, Temperature included, convert_unit
\* ends in a lookup failure whenever unit_from or unit_to is no key of the
\* category's table, and returns no number.
UnknownUnitAlwaysRaises ==
  (/\ Ended("convert_unit")
   /\ call.unit_type \in Categories
   /\ \/ call.unit_from \notin DOMAIN UNITS[call.unit_type]
      \/ call.unit_to \notin DOMAIN UNITS[call.unit_type])
    => outcome.kind = "raise"

Recognised == {"Fahrenheit", "Kelvin"}

\* The reference formulas.
CelsiusFromFahrenheit(v) == FDiv(FMul(FSub(v, FromInt(32)), FromInt(5)), FromInt(9))

CelsiusFromKelvin(v) == FSub(v, Dec(27315, 2))

FahrenheitFromCelsius(c) == FAdd(FDiv(FMul(c, FromInt(9)), FromInt(5)), FromInt(32))

KelvinFromCelsius(c) == FAdd(c, Dec(27315, 2))

\* C5: convert_temperature never raises and always returns a number, for all
\* unit names: a from_unit other than Fahrenheit or Kelvin is taken as Celsius,
\* a to_unit other than Fahrenheit or Kelvin gets the Celsius value.
TemperatureNeverRaises ==
  Ended("convert_temperature") =>
    /\ outcome.kind = "return"
    /\ IsFloat(outcome.val)
    /\ call.unit_from \notin Recognised =>
         FEq(outcome.val,
             CASE call.unit_to = "Fahrenheit" -> FahrenheitFromCelsius(call.value)
               [] call.unit_to = "Kelvin" -> KelvinFromCelsius(call.value)
               [] OTHER -> call.value)
    /\ call.unit_to \notin Recognised =>
         FEq(outcome.val,
             CASE call.unit_from = "Fahrenheit" -> CelsiusFromFahrenheit(call.value)
               [] call.unit_from = "Kelvin" -> CelsiusFromKelvin(call.value)
               [] OTHER -> call.value)

TemperatureUnknownWitness ==
  /\ IsCall("convert_temperature", FromInt(100), "Foo", "Fahrenheit", "Temperature")
  /\ outcome = Return(FromInt(212))

ReferenceCelsius(v, u) ==
  CASE u = "Fahrenheit" -> CelsiusFromFahrenheit(v)
    [] u = "Kelvin" -> CelsiusFromKelvin(v)
    [] u = "Celsius" -> v

ReferenceTemperature(v, from, to) ==
  CASE to = "Fahrenheit" -> FahrenheitFromCelsius(ReferenceCelsius(v, from))
    [] to = "Kelvin" -> KelvinFromCelsius(ReferenceCelsius(v, from))
    [] to = "Celsius" -> ReferenceCelsius(v, from)

\* convert_unit(value, from, to, "Temperature") has returned exactly result.
TemperatureGives(value, from, to, result) ==
  IsCall("convert_unit", FromInt(value), from, to, "Temperature")
    => outcome.kind = "return" /\ FEq(outcome.val, result)

\* C6: for every pair of distinct units of the Temperature table,
\* convert_unit(value, from, to, "Temperature") returns what the reference
\* formulas give, through Celsius; 0 C is 32 F, 100 C is 212 F, 0 C is
\* 273.15 K and 32 F is 0 C.
TemperatureFormulas ==
  /\ (/\ Ended("convert_unit")
      /\ call.unit_type = "Temperature"
      /\ UnitOf("Temperature", call.unit_from)
      /\ UnitOf("Temperature", call.unit_to)
      /\ call.unit_from # call.unit_to)
       => /\ outcome.kind = "return"
          /\ FEq(outcome.val,
                 ReferenceTemperature(call.value, call.unit_from, call.unit_to))
  /\ TemperatureGives(0, "Celsius", "Fahrenheit", FromInt(32))
  /\ TemperatureGives(100, "Celsius", "Fahrenheit", FromInt(212))
  /\ TemperatureGives(0, "Celsius", "Kelvin", Dec(27315, 2))
  /\ TemperatureGives(32, "Fahrenheit", "Celsius", FromInt(0))

TemperatureFormulasWitness ==
  /\ IsCall("convert_unit", FromInt(32), "Fahrenheit", "Kelvin", "Temperature")
  /\ outcome = Return(Dec(27315, 2))

\* convert_unit(value, from, to, unit_type) has returned exactly result.
LinearGives(value, from, to, unit_type, result) ==
  IsCall("convert_unit", FromInt(value), from, to, unit_type)
    => outcome.kind = "return" /\ FEq(outcome.val, result)

\* A linear call with both units in the table.
LinearCall ==
  /\ Ended("convert_unit")
  /\ call.unit_type \in Linear
  /\ UnitOf(call.unit_type, call.unit_from)
  /\ UnitOf(call.unit_type, call.unit_to)

\* C7: for Length and Weight and every pair of units of the table,
\* convert_unit returns value * factor(unit_from) / factor(unit_to); 1000 Meter
\* is exactly 1 Kilometer and 1 Pound is 453.592 Gram.
LinearComposition ==
  /\ LinearCall =>
       /\ outcome.kind = "return"
       /\ FEq(outcome.val,
              FDiv(FMul(call.value, units[call.unit_type][call.unit_from]),
                   units[call.unit_type][call.unit_to]))
  /\ LinearGives(1000, "Meter", "Kilometer", "Length", FromInt(1))
  /\ LinearGives(1, "Pound", "Gram", "Weight", Dec(453592, 3))

LinearCompositionWitness ==
  /\ IsCall("convert_unit", FromInt(1), "Pound", "Gram", "Weight")
  /\ outcome = Return(Dec(453592, 3))

BaseUnit == [Length |-> "Meter", Weight |-> "Kilogram"]

Positive(f) == f.sgn = 0 /\ ~IsZero(f)

\* A call convert_unit(1, X, base unit, category).
BaseUnitCall ==
  /\ LinearCall
  /\ FEq(call.value, FromInt(1))
  /\ call.unit_to = BaseUnit[call.unit_type]

\* C8: convert_unit(1, X, "Meter", "Length") and convert_unit(1, X,
\* "Kilogram", "Weight") return exactly factor(X); the base unit's factor is
\* exactly 1 and every factor is positive.
BaseUnitProperty ==
  /\ BaseUnitCall =>
       outcome.kind = "return" /\ FEq(outcome.val, units[call.unit_type][call.unit_from])
  /\ \A c \in Linear :
       /\ FEq(units[c][BaseUnit[c]], FromInt(1))
       /\ \A u \in DOMAIN units[c] : Positive(units[c][u])

BaseUnitWitness ==
  /\ BaseUnitCall
  /\ call.unit_from = "Ounce"
  /\ outcome = Return(Dec(283495, 7))

\* C9: after any sequence of calls of convert_unit and convert_temperature,
\* those that ended in a lookup failure included, UNITS holds the categories,
\* the unit names and the factors it held at the start.
UnitsNeverModified ==
  /\ DOMAIN units = {"Length", "Weight", "Temperature"}
  /\ units.Length = LengthUnits
  /\ units.Weight = WeightUnits
  /\ units.Temperature = TemperatureUnits

UnitsAfterFailureWitness ==
  /\ Ended("convert_unit")
  /\ call.unit_type = "Bogus"
  /\ outcome.kind = "raise"
  /\ units = UNITS

Shown(element) == \E i \in 1..Len(screen) : screen[i] = element

\* What convert_unit does with the arguments main passes at line 138.
MainResult ==
  convert_unit(frame.input_value, frame.from_unit, frame.to_unit, frame.unit_type)

PastTry == pc \in {"main_about", "main_done"}

\* C10: every run of main shows exactly one of the two outcomes.  When
\* convert_unit returns, the result is shown and no error; when it raises, the
\* exception is caught, the error is shown and no result, and main goes on to
\* the About section instead of crashing.
MainShowsOneOutcome ==
  /\ pc # "main_crashed"
  /\ PastTry =>
       /\ Shown("success") # Shown("error")
       /\ MainResult.kind = "return" => Shown("info") /\ Shown("success") /\ ~Shown("error")
       /\ MainResult.kind = "raise" => Shown("error") /\ ~Shown("info") /\ ~Shown("success")
  /\ pc = "main_about" => ENABLED MainAbout
  /\ pc = "main_done" => screen[Len(screen) - 1] = "expander"

MainErrorWitness ==
  /\ pc = "main_done"
  /\ MainResult.kind = "raise"
  /\ Shown("error")
  /\ Shown("expander")

====
